---- MODULE Spec2Model ----
(***************************************************************************)
(* Model of the incremental log-processing pipeline of ona-bot             *)
(* (src/ona-bot/structure.py) together with the intake handler of          *)
(* src/ona-bot/bot.py that feeds it.                                       *)
(*                                                                         *)
(* Timestamps are ISO-8601 strings in the program and are compared as      *)
(* strings.  Only their order and equality matter, so they are modelled by *)
(* their rank in that order: rank 0 is the empty string "" (the default of *)
(* a missing checkpoint, which Python treats as false) and the k-th        *)
(* distinct timestamp handed out by the intake clock has rank k.  A         *)
(* timestamp that no row carries (one pieced together in state.json from   *)
(* the texts of two saves) is compared with the rows' timestamps only, and *)
(* is modelled by the rank of the greatest row timestamp not above it.     *)
(***************************************************************************)
EXTENDS Integers, Sequences, FiniteSets, TLC

\* ------------------------------------------------------------------ bounds
MaxRaw == 3        \* rows the raw sheet may hold
MaxRuns == 2       \* runs of main() that may be started
MaxAudit == 3      \* rows the parsed_logs sheet may hold
MaxAlloc == 11     \* sequential allocations followed in SpecAlloc
MaxRawOverlap == 2 \* rows the raw sheet may hold in SpecOverlap

\* limit passed to fetch_recent_raw by main()
FetchLimit == 100

\* processes that may run main(); Spec lets one run at a time
Procs == {"A"}

\* Two workout dates a parse may return, as character sequences.
D1 == <<"2", "0", "2", "6", "-", "0", "1", "-", "0", "5">>
D2 == <<"2", "0", "2", "6", "-", "0", "1", "-", "0", "6">>
Dates == {D1, D2}

VARIABLES
    raw,         \* the store's raw sheet: sequence of [timestamp]
    checkpoint,  \* state.json: the persisted last_timestamp (0 = "" / no file),
                 \* or Empty / Garbled for a file that is not JSON
    audit,       \* the store's parsed_logs sheet (append_parsed)
    headers,     \* the store's workouts sheet (append_workout)
    activities,  \* the store's activities sheet (append_activities)
    run,         \* per process: the local variables and position of main(),
                 \* and the lengths of the sheets when its run started (history)
    runNo,       \* number of runs started so far (history)
    saveFailed   \* whether some save_state has raised so far (history)

vars == <<raw, checkpoint, audit, headers, activities, run, runNo, saveFailed>>

\* ------------------------------------------------------- model output text
\* The text returned by the model for one entry, abstracted to what the code
\* looks at: whether it is JSON ("invalid" when it is not) and whether the
\* JSON is an object ("obj") or another value such as [] or null ("nonobj"),
\* its "status" key, the date of its "workout" object (<<>> when the object or
\* the key is absent) and its activities.
Text(kind, status, date, acts) ==
    [kind |-> kind, status |-> status, date |-> date, activities |-> acts, src |-> 0]

ModelOutputs ==
    { Text("invalid", "absent", <<>>, <<>>),
      Text("nonobj", "absent", <<>>, <<>>),
      Text("obj", "absent", D1, <<>>),
      Text("obj", "needs_review", D1, <<>>),
      Text("obj", "ok", D1, <<"bench">>),
      Text("obj", "ok", <<>>, <<>>) }

\* parsed_json before its first assignment
Unbound == Text("unbound", "absent", <<>>, <<>>)

\* obj.get("status", "needs_review")
StatusOf(obj) == IF obj.status = "absent" THEN "needs_review" ELSE obj.status

\* parse_with_llm: json.loads raises on text that is not JSON, obj.get raises
\* on JSON that is not an object; otherwise the re-serialised object and its
\* status.  src records the entry parsed (history).
parse_with_llm(text, entry) ==
    IF text.kind = "invalid"
    THEN [raised |-> TRUE, parsed_json |-> Unbound, status |-> "none"]
    ELSE IF text.kind = "nonobj"
    THEN [raised |-> TRUE, parsed_json |-> Unbound, status |-> "none"]
    ELSE [raised |-> FALSE,
          parsed_json |-> [text EXCEPT !.src = entry],
          status |-> StatusOf(text)]

\* err_payload = json.dumps({"error": str(e)}); of the message only the call
\* that raised is kept: "ParseError" for parse_with_llm (the JSONDecodeError of
\* json.loads, the AttributeError of obj.get), "HTTPError" for append_parsed
ErrPayload(msg, entry) == [Text("error", msg, <<>>, <<>>) EXCEPT !.src = entry]

\* ------------------------------------------------------------ load / fetch
\* state.json as open(STATE_FILE, "w") leaves it: no text at all
Empty == -1

\* state.json holding text that is not one JSON text: a text followed by the
\* tail of a longer one, or the first part of a text whose write failed
Garbled == -2

\* json.load(f) returns: the file holds one JSON text (or does not exist)
Readable(content) == content >= 0

\* json.dump and close through a handle that open(STATE_FILE, "w") returned
\* before `content` came to be in the file: the text is written from offset 0
\* and is the whole file when the file was empty or held a text that is not
\* longer; the tail of a longer text stays behind it.  A timestamp has 25
\* characters, or 32 with microseconds; the model does not keep which, so over
\* the text of another timestamp both outcomes are possible.
Written(content, ts) ==
    IF content = Empty \/ content = ts THEN {ts} ELSE {ts, Garbled}

\* What a write that fails part-way can leave readable: the first part of the
\* text of `ts` written over the complete text of another process's save of
\* the same length, the rest of which stays.  The file then holds one JSON
\* text whose timestamp begins as `ts` and ends as `content`: `content` itself
\* when the part written ends before the two differ, else `ts` or a
\* timestamp no process wrote, which lies on the same side of `content` as
\* `ts` does.  Over an empty file or over text that is not JSON no part of a
\* text is JSON.
PartWritten(content, ts) ==
    IF ~Readable(content) \/ content = 0 THEN {}
    ELSE IF ts < content THEN 0..(content - 1)
    ELSE IF ts > content THEN content..Len(raw)
    ELSE {content}

\* load_state().get("last_timestamp", "")
load_state == checkpoint

\* the orders in which the store may return n rows
FetchOrders(n) ==
    {o \in [1..n -> 1..n] : \A a, b \in 1..n : a # b => o[a] # o[b]}

\* fetch_recent_raw(limit): at most `limit` most recent rows of the raw sheet,
\* in the order `order`; each row carries its timestamp and the identity of
\* the entry (standing for user_id and raw_text).
fetch_recent_raw(limit, order) ==
    LET n == Len(raw)
        first == IF n > limit THEN n - limit ELSE 0
    IN  [k \in 1..(n - first) |->
            [id |-> first + order[k], timestamp |-> raw[first + order[k]].timestamp]]

\* sorted(rows, key=timestamp): stable insertion into ascending order
RECURSIVE Insert(_, _)
Insert(r, s) ==
    IF s = <<>> THEN <<r>>
    ELSE IF r.timestamp < s[1].timestamp THEN <<r>> \o s
    ELSE <<s[1]>> \o Insert(r, Tail(s))

RECURSIVE sorted(_)
sorted(rows) ==
    IF rows = <<>> THEN <<>>
    ELSE LET n == Len(rows)
         IN  Insert(rows[n], sorted(SubSeq(rows, 1, n - 1)))

\* ------------------------------------------------------------ workout ids
Digit(d) == CASE d = 0 -> "0" [] d = 1 -> "1" [] d = 2 -> "2" [] d = 3 -> "3"
              [] d = 4 -> "4" [] d = 5 -> "5" [] d = 6 -> "6" [] d = 7 -> "7"
              [] d = 8 -> "8" [] d = 9 -> "9"

RECURSIVE Decimal(_)
Decimal(n) == IF n < 10 THEN <<Digit(n)>> ELSE Decimal(n \div 10) \o <<Digit(n % 10)>>

\* f"{serial:03d}"
Format03d(n) ==
    LET s == Decimal(n)
    IN  IF Len(s) >= 3 THEN s
        ELSE [k \in 1..(3 - Len(s)) |-> "0"] \o s

\* date_iso.replace("-", "")
StripDashes(date_iso) == SelectSeq(date_iso, LAMBDA c : c # "-")

\* variant of get_workouts_count_for_date that counts the rows of other dates
get_workouts_count_for_date_otherDate(date_iso) ==
    Cardinality({k \in DOMAIN headers : headers[k].date # date_iso})

\* get_workouts_count_for_date: the store's count of workouts sheet rows
\* recorded for the date
get_workouts_count_for_date(date_iso) ==
    Cardinality({k \in DOMAIN headers : headers[k].date = date_iso})

\* variant of make_workout_id that uses the count itself as the serial
make_workout_id_noIncrement(date_iso) ==
    LET yyyymmdd == StripDashes(date_iso)
        count == get_workouts_count_for_date(date_iso)
    IN  yyyymmdd \o <<"-">> \o Format03d(count)

make_workout_id(date_iso) ==
    LET yyyymmdd == StripDashes(date_iso)
        count == get_workouts_count_for_date(date_iso)
        serial == count + 1
    IN  yyyymmdd \o <<"-">> \o Format03d(serial)

\* ------------------------------------------------------------------- rows
\* The parsed_json column of a parsed_logs row: the error message of an error
\* object, "obj" for a serialised parse result (the store never reads it).
Column(payload) == IF payload.kind = "error" THEN payload.status ELSE "obj"

\* append_parsed payload; by is a history field (the process that wrote it)
AuditRow(r, payload, status, p) ==
    [timestamp |-> r.timestamp, entry |-> r.id, parsed_json |-> Column(payload),
     status |-> status, by |-> p]

\* append_workout payload; src and by are history fields (the entry whose
\* parse result the row was built from, the process that wrote it)
HeaderRow(workout_id, obj, p) ==
    [workout_id |-> workout_id, date |-> obj.date, src |-> obj.src, by |-> p]

\* append_activities payload: one row per activity
ActivityRows(workout_id, date_iso, obj, p) ==
    [k \in 1..Len(obj.activities) |->
        [workout_id |-> workout_id, date |-> date_iso,
         exercise |-> obj.activities[k], src |-> obj.src, by |-> p]]

\* ------------------------------------------------------------------- Init
IdleRun ==
    [pc |-> "idle", state |-> 0, last_ts |-> 0, rows_sorted |-> <<>>, i |-> 0,
     processed_any |-> FALSE, parsed_json |-> Unbound, workout_id |-> <<>>,
     exc |-> "none",
     \* history: the rows past which last_ts was advanced, the number of
     \* save_state calls that returned, and the lengths of the sheets at start
     handled |-> <<>>, saves |-> 0, audit0 |-> 0, headers0 |-> 0, activities0 |-> 0]

Init ==
    /\ raw = <<>>
    /\ checkpoint = 0
    /\ audit = <<>>
    /\ headers = <<>>
    /\ activities = <<>>
    /\ run = [p \in Procs |-> IdleRun]
    /\ runNo = 0
    /\ saveFailed = FALSE

Set(p, r) == run' = [run EXCEPT ![p] = r]

Raise(p, e) == [run[p] EXCEPT !.pc = "raised", !.exc = e]

\* ---------------------------------------------------------------- intake
\* datetime.now(timezone.utc).isoformat() of the intake: the clock does not go
\* back, so a new message gets the timestamp of the previous one (the same
\* instant) or the next rank.
Now == LET last == IF raw = <<>> THEN 0 ELSE raw[Len(raw)].timestamp
       IN  {last, last + 1} \ {0}

\* bot.py handle_text / handle_voice: one row appended to the raw sheet with
\* the timestamp of the message (post_to_sheet succeeded).  The pipeline reads
\* the raw sheet only in its fetch, so a row added while a run is past its
\* fetch is seen exactly as one added after that run: intake steps are taken
\* between runs, and none after the last run started.
AddRaw ==
    /\ Len(raw) < MaxRaw
    /\ runNo < MaxRuns
    /\ \A p \in Procs : run[p].pc = "idle"
    /\ \E ts \in Now :
          raw' = Append(raw, [timestamp |-> ts])
    /\ UNCHANGED <<checkpoint, audit, headers, activities, run, runNo, saveFailed>>

\* ------------------------------------------------------------------ main
\* main(), up to the loop: load_state, fetch_recent_raw, sorted.
Start(p) ==
    /\ run[p].pc = "idle"
    /\ Readable(checkpoint)
    /\ \A q \in Procs \ {p} : run[q].pc = "idle"
    /\ runNo < MaxRuns
    /\ runNo' = runNo + 1
    /\ \E order \in FetchOrders(IF Len(raw) > FetchLimit THEN FetchLimit ELSE Len(raw)) :
          Set(p, [IdleRun EXCEPT
                    !.pc = "loop",
                    !.state = load_state,
                    !.last_ts = load_state,
                    !.rows_sorted = sorted(fetch_recent_raw(FetchLimit, order)),
                    !.i = 1,
                    !.audit0 = Len(audit),
                    !.headers0 = Len(headers),
                    !.activities0 = Len(activities)])
    /\ UNCHANGED <<raw, checkpoint, audit, headers, activities, saveFailed>>

\* fetch_recent_raw raises (non-2xx response or ok:false): main() ends.
StartFetchFails(p) ==
    /\ run[p].pc = "idle"
    /\ Readable(checkpoint)
    /\ \A q \in Procs \ {p} : run[q].pc = "idle"
    /\ runNo < MaxRuns
    /\ runNo' = runNo + 1
    /\ Set(p, [IdleRun EXCEPT !.pc = "raised", !.exc = "fetch",
                              !.state = load_state, !.last_ts = load_state,
                              !.audit0 = Len(audit),
                    !.headers0 = Len(headers),
                    !.activities0 = Len(activities)])
    /\ UNCHANGED <<raw, checkpoint, audit, headers, activities, saveFailed>>

\* load_state raises (json.load on a state.json that is not JSON): main() ends
\* before the fetch.
StartLoadFails(p) ==
    /\ run[p].pc = "idle"
    /\ ~Readable(checkpoint)
    /\ \A q \in Procs \ {p} : run[q].pc = "idle"
    /\ runNo < MaxRuns
    /\ runNo' = runNo + 1
    /\ Set(p, [IdleRun EXCEPT !.pc = "raised", !.exc = "load",
                              !.audit0 = Len(audit),
                              !.headers0 = Len(headers),
                              !.activities0 = Len(activities)])
    /\ UNCHANGED <<raw, checkpoint, audit, headers, activities, saveFailed>>

InLoop(p) == run[p].pc = "loop" /\ run[p].i <= Len(run[p].rows_sorted)

Current(p) == run[p].rows_sorted[run[p].i]

\* variant of Skips whose second test is `ts < last_ts`
Skips_lt(last_ts, ts) == ts = 0 \/ (last_ts # 0 /\ ts < last_ts)

\* the two `continue` tests at the head of the loop body (`not ts` is ts = 0:
\* the intake always sets a timestamp, so rows of the raw sheet have rank >= 1)
Skips(last_ts, ts) == ts = 0 \/ (last_ts # 0 /\ ts <= last_ts)

SkipEntry(p) ==
    /\ InLoop(p)
    /\ Skips(run[p].last_ts, Current(p).timestamp)
    /\ Set(p, [run[p] EXCEPT !.i = @ + 1])
    /\ UNCHANGED <<raw, checkpoint, audit, headers, activities, runNo, saveFailed>>

\* The try block succeeds: parse_with_llm returns and append_parsed writes the
\* row with the parse's status.
HandleEntry(p) ==
    /\ InLoop(p)
    /\ ~Skips(run[p].last_ts, Current(p).timestamp)
    /\ Len(audit) < MaxAudit
    /\ \E text \in ModelOutputs :
          LET r == Current(p)
              res == parse_with_llm(text, r.id)
          IN  /\ ~res.raised
              /\ audit' = Append(audit, AuditRow(r, res.parsed_json, res.status, p))
              /\ Set(p, [run[p] EXCEPT !.parsed_json = res.parsed_json,
                                       !.last_ts = r.timestamp,
                                       !.processed_any = TRUE,
                                       !.handled = Append(@, r),
                                       !.i = @ + 1])
    /\ UNCHANGED <<raw, checkpoint, headers, activities, runNo, saveFailed>>

\* variant of HandleEntryError whose handler swallows the exception without
\* writing the error row
HandleEntryError_swallow(p) ==
    /\ InLoop(p)
    /\ ~Skips(run[p].last_ts, Current(p).timestamp)
    /\ Len(audit) < MaxAudit
    /\ \E text \in ModelOutputs :
          LET r == Current(p)
              res == parse_with_llm(text, r.id)
          IN  Set(p, [run[p] EXCEPT
                        !.parsed_json = IF res.raised THEN @ ELSE res.parsed_json,
                        !.last_ts = r.timestamp,
                        !.processed_any = TRUE,
                        !.handled = Append(@, r),
                        !.i = @ + 1])
    /\ UNCHANGED <<raw, checkpoint, audit, headers, activities, runNo, saveFailed>>

\* The try block raises (in parse_with_llm, or in append_parsed after a parse
\* that has already assigned parsed_json) and the handler's append_parsed
\* writes the error row.
HandleEntryError(p) ==
    /\ InLoop(p)
    /\ ~Skips(run[p].last_ts, Current(p).timestamp)
    /\ Len(audit) < MaxAudit
    /\ \E text \in ModelOutputs :
          LET r == Current(p)
              res == parse_with_llm(text, r.id)
              msg == IF res.raised THEN "ParseError" ELSE "HTTPError"
          IN  /\ audit' = Append(audit, AuditRow(r, ErrPayload(msg, r.id), "error", p))
              /\ Set(p, [run[p] EXCEPT
                           !.parsed_json = IF res.raised THEN @ ELSE res.parsed_json,
                           !.last_ts = r.timestamp,
                           !.processed_any = TRUE,
                           !.handled = Append(@, r),
                           !.i = @ + 1])
    /\ UNCHANGED <<raw, checkpoint, headers, activities, runNo, saveFailed>>

\* The try block raises and the handler's own append_parsed raises too: the
\* exception leaves main().
HandleEntryAbort(p) ==
    /\ InLoop(p)
    /\ ~Skips(run[p].last_ts, Current(p).timestamp)
    /\ Len(audit) < MaxAudit
    /\ \E text \in ModelOutputs :
          LET r == Current(p)
              res == parse_with_llm(text, r.id)
          IN  Set(p, [Raise(p, "HTTPError") EXCEPT
                        !.parsed_json = IF res.raised THEN @ ELSE res.parsed_json])
    /\ UNCHANGED <<raw, checkpoint, audit, headers, activities, runNo, saveFailed>>

LoopOver(p) == run[p].pc = "loop" /\ run[p].i > Len(run[p].rows_sorted)

\* if processed_any: save_state(...), line 28: open(STATE_FILE, "w") creates
\* or truncates state.json
SaveStateOpen(p) ==
    /\ LoopOver(p)
    /\ run[p].processed_any
    /\ checkpoint' = Empty
    /\ Set(p, [run[p] EXCEPT !.pc = "save"])
    /\ UNCHANGED <<raw, audit, headers, activities, runNo, saveFailed>>

\* save_state, line 29: json.dump writes {"last_timestamp": last_ts}, the file
\* is closed and save_state returns
SaveState(p) ==
    /\ run[p].pc = "save"
    /\ \E content \in Written(checkpoint, run[p].last_ts) :
          checkpoint' = content
    /\ Set(p, [run[p] EXCEPT !.pc = "post", !.saves = @ + 1])
    /\ UNCHANGED <<raw, audit, headers, activities, runNo, saveFailed>>

\* open(STATE_FILE, "w") raises: state.json is as it was and the exception
\* leaves main().
SaveStateFails(p) ==
    /\ LoopOver(p)
    /\ run[p].processed_any
    /\ Set(p, Raise(p, "OSError"))
    /\ saveFailed' = TRUE
    /\ UNCHANGED <<raw, checkpoint, audit, headers, activities, runNo>>

\* json.dump or the flush on close raises and the exception leaves main():
\* either nothing was written and state.json is as it was after open() (or as
\* another process has left it since), or the first part of the text reached
\* the file, which is then not JSON or, over the text another process saved,
\* JSON again (PartWritten).
SaveStateDumpFails(p) ==
    /\ run[p].pc = "save"
    /\ Set(p, Raise(p, "OSError"))
    /\ saveFailed' = TRUE
    /\ \E content \in {checkpoint, Garbled} \cup PartWritten(checkpoint, run[p].last_ts) :
          checkpoint' = content
    /\ UNCHANGED <<raw, audit, headers, activities, runNo>>

\* variant of NothingNew that saves the checkpoint although nothing was handled
NothingNew_saves(p) ==
    /\ LoopOver(p)
    /\ ~run[p].processed_any
    /\ checkpoint' = run[p].last_ts
    /\ Set(p, [run[p] EXCEPT !.pc = "post", !.saves = @ + 1])
    /\ UNCHANGED <<raw, audit, headers, activities, runNo, saveFailed>>

\* else: print("Nothing new to process.")
NothingNew(p) ==
    /\ LoopOver(p)
    /\ ~run[p].processed_any
    /\ Set(p, [run[p] EXCEPT !.pc = "post"])
    /\ UNCHANGED <<raw, checkpoint, audit, headers, activities, runNo, saveFailed>>

\* After the loop: obj = json.loads(parsed_json); status; for status ok the
\* workout object, its date and make_workout_id (the count query).
PostLoop(p) ==
    /\ run[p].pc = "post"
    /\ LET obj == run[p].parsed_json
       IN  \E countFails \in BOOLEAN :
              Set(p, IF obj.kind = "unbound" THEN Raise(p, "UnboundLocalError")
                     ELSE IF StatusOf(obj) # "ok" THEN [run[p] EXCEPT !.pc = "done"]
                     ELSE IF obj.date = <<>> THEN Raise(p, "KeyError")
                     ELSE IF countFails THEN Raise(p, "HTTPError")
                     ELSE [run[p] EXCEPT !.pc = "hdr",
                                         !.workout_id = make_workout_id(obj.date)])
    /\ UNCHANGED <<raw, checkpoint, audit, headers, activities, runNo, saveFailed>>

\* append_workout_row(workout_id, w)
AppendWorkoutRow(p) ==
    /\ run[p].pc = "hdr"
    /\ headers' = Append(headers, HeaderRow(run[p].workout_id, run[p].parsed_json, p))
    /\ Set(p, [run[p] EXCEPT !.pc = "act"])
    /\ UNCHANGED <<raw, checkpoint, audit, activities, runNo, saveFailed>>

AppendWorkoutRowFails(p) ==
    /\ run[p].pc = "hdr"
    /\ Set(p, Raise(p, "HTTPError"))
    /\ UNCHANGED <<raw, checkpoint, audit, headers, activities, runNo, saveFailed>>

\* append_activity_rows(workout_id, date_iso, obj.get("activities", []))
AppendActivityRows(p) ==
    /\ run[p].pc = "act"
    /\ activities' = activities \o
          ActivityRows(run[p].workout_id, run[p].parsed_json.date, run[p].parsed_json, p)
    /\ Set(p, [run[p] EXCEPT !.pc = "done"])
    /\ UNCHANGED <<raw, checkpoint, audit, headers, runNo, saveFailed>>

AppendActivityRowsFails(p) ==
    /\ run[p].pc = "act"
    /\ Set(p, Raise(p, "HTTPError"))
    /\ UNCHANGED <<raw, checkpoint, audit, headers, activities, runNo, saveFailed>>

\* main() has returned or raised: the process exits and its locals are gone.
Exit(p) ==
    /\ run[p].pc \in {"done", "raised"}
    /\ Set(p, IdleRun)
    /\ UNCHANGED <<raw, checkpoint, audit, headers, activities, runNo, saveFailed>>

Next ==
    \/ AddRaw
    \/ \E p \in Procs :
          \/ Start(p)
          \/ StartFetchFails(p)
          \/ StartLoadFails(p)
          \/ SkipEntry(p)
          \/ HandleEntry(p)
          \/ HandleEntryError(p)
          \/ HandleEntryAbort(p)
          \/ SaveStateOpen(p)
          \/ SaveState(p)
          \/ SaveStateFails(p)
          \/ SaveStateDumpFails(p)
          \/ NothingNew(p)
          \/ PostLoop(p)
          \/ AppendWorkoutRow(p)
          \/ AppendWorkoutRowFails(p)
          \/ AppendActivityRows(p)
          \/ AppendActivityRowsFails(p)
          \/ Exit(p)

Spec == Init /\ [][Next]_vars

\* ------------------------------------------------- sequential allocation
\* make_workout_id(d) followed by append_workout_row, as main() does for a
\* parse result with status ok and date d, repeated against the same store.
AllocateAndRecord(d) ==
    /\ Len(headers) < MaxAlloc
    /\ headers' = Append(headers,
          HeaderRow(make_workout_id(d), Text("obj", "ok", d, <<>>), "A"))
    /\ UNCHANGED <<raw, checkpoint, audit, activities, run, runNo, saveFailed>>

NextAlloc == \E d \in Dates : AllocateAndRecord(d)

SpecAlloc == Init /\ [][NextAlloc]_vars

\* ------------------------------------------------------- overlapping runs
\* Two processes each run main() once against the same store and the same
\* state.json, with nothing that keeps one from starting while the other is
\* running (two invocations of `python structure.py`).  A process that has
\* ended keeps its last position, so that what its run did stays visible.
Procs2 == {"A", "B"}

InitOverlap ==
    /\ raw = <<>>
    /\ checkpoint = 0
    /\ audit = <<>>
    /\ headers = <<>>
    /\ activities = <<>>
    /\ run = [p \in Procs2 |-> IdleRun]
    /\ runNo = 0
    /\ saveFailed = FALSE

\* the intake appends a row at any moment, whatever the runs are doing (a row
\* added after both fetches is seen by neither run); the messages followed
\* here arrive at distinct instants, each later than the one before
AddRawOverlap ==
    /\ Len(raw) < MaxRawOverlap
    /\ \E p \in Procs2 : run[p].pc \in {"idle", "fetch"}
    /\ raw' = Append(raw, [timestamp |-> Len(raw) + 1])
    /\ UNCHANGED <<checkpoint, audit, headers, activities, run, runNo, saveFailed>>

\* main() begins whatever the other process is doing: load_state returns and
\* last_ts is taken from it (lines 167-169); the process then waits for the
\* store to answer its fetch.  audit0, headers0 and activities0 are the lengths
\* of the sheets when main() began.
StartOverlap(p) ==
    /\ run[p].pc = "idle"
    /\ Readable(checkpoint)
    /\ runNo' = runNo + 1
    /\ Set(p, [IdleRun EXCEPT
                 !.pc = "fetch",
                 !.state = load_state,
                 !.last_ts = load_state,
                 !.audit0 = Len(audit),
                 !.headers0 = Len(headers),
                 !.activities0 = Len(activities)])
    /\ UNCHANGED <<raw, checkpoint, audit, headers, activities, saveFailed>>

\* load_state raises on a state.json that is not JSON (the other run is
\* between open and json.dump in save_state, or a save left the file so):
\* main() ends before the fetch
StartLoadFailsOverlap(p) ==
    /\ run[p].pc = "idle"
    /\ ~Readable(checkpoint)
    /\ runNo' = runNo + 1
    /\ Set(p, [IdleRun EXCEPT !.pc = "raised", !.exc = "load",
                              !.audit0 = Len(audit),
                              !.headers0 = Len(headers),
                              !.activities0 = Len(activities)])
    /\ UNCHANGED <<raw, checkpoint, audit, headers, activities, saveFailed>>

\* fetch_recent_raw returns the raw sheet as it is now (line 172) and the rows
\* are sorted (line 175)
FetchOverlap(p) ==
    /\ run[p].pc = "fetch"
    /\ \E order \in FetchOrders(IF Len(raw) > FetchLimit THEN FetchLimit ELSE Len(raw)) :
          Set(p, [run[p] EXCEPT
                    !.pc = "loop",
                    !.rows_sorted = sorted(fetch_recent_raw(FetchLimit, order)),
                    !.i = 1])
    /\ UNCHANGED <<raw, checkpoint, audit, headers, activities, runNo, saveFailed>>

\* fetch_recent_raw raises: main() ends before the loop
StartFetchFailsOverlap(p) ==
    /\ run[p].pc = "fetch"
    /\ Set(p, Raise(p, "fetch"))
    /\ UNCHANGED <<raw, checkpoint, audit, headers, activities, runNo, saveFailed>>

NextOverlap ==
    \/ AddRawOverlap
    \/ \E p \in Procs2 :
          \/ StartOverlap(p)
          \/ StartLoadFailsOverlap(p)
          \/ FetchOverlap(p)
          \/ StartFetchFailsOverlap(p)
          \/ SkipEntry(p)
          \/ HandleEntry(p)
          \/ HandleEntryError(p)
          \/ HandleEntryAbort(p)
          \/ SaveStateOpen(p)
          \/ SaveState(p)
          \/ SaveStateFails(p)
          \/ SaveStateDumpFails(p)
          \/ NothingNew(p)
          \/ PostLoop(p)
          \/ AppendWorkoutRow(p)
          \/ AppendWorkoutRowFails(p)
          \/ AppendActivityRows(p)
          \/ AppendActivityRowsFails(p)

SpecOverlap == InitOverlap /\ [][NextOverlap]_vars

\* ------------------------------------------------------------ properties
Active(p) == run[p].pc # "idle"

Rows(p) == run[p].rows_sorted

\* the rows process p has appended to a sheet since its run started
Since(sheet, from, p) ==
    SelectSeq(SubSeq(sheet, from + 1, Len(sheet)), LAMBDA x : x.by = p)

RunAudit(p) == Since(audit, run[p].audit0, p)

RunHeaders(p) == Since(headers, run[p].headers0, p)

RunActivities(p) == Since(activities, run[p].activities0, p)

\* the loop of the run has gone through every fetched row
LoopDone(p) ==
    /\ Active(p)
    /\ run[p].exc # "fetch"
    /\ run[p].i > Len(Rows(p))

HasAudit(p, id) == \E j \in DOMAIN RunAudit(p) : RunAudit(p)[j].entry = id

\* C1 (as claimed): once the loop of a run is over, a fetched entry has an
\* audit row of this run if and only if its timestamp is strictly greater than
\* the last_timestamp loaded at the start of the run.
C1_HandledIffAboveLoaded ==
    \A p \in Procs :
        LoopDone(p) =>
            \A k \in DOMAIN Rows(p) :
                HasAudit(p, Rows(p)[k].id) <=> Rows(p)[k].timestamp > run[p].state

\* C2: within one run the audit rows are written in strictly ascending order
\* of timestamp, whatever the order of the fetch.
C2_AscendingHandling ==
    \A p \in Procs :
        Active(p) =>
            \A j \in 1..(Len(RunAudit(p)) - 1) :
                RunAudit(p)[j].timestamp < RunAudit(p)[j + 1].timestamp

\* a run that wrote at least two audit rows after a fetch that returned two
\* rows of one timestamp in the reverse of their sheet order
C2_Witness ==
    \E p \in Procs :
        /\ Len(RunAudit(p)) >= 2
        /\ \E k \in 1..(Len(Rows(p)) - 1) : Rows(p)[k].id > Rows(p)[k + 1].id

\* C3 (as claimed): in a run that reaches the checkpoint save, every fetched
\* entry whose timestamp is above the checkpoint loaded at the start has an
\* audit row written in that run.
C3_NoEligibleEntrySkipped ==
    \A p \in Procs :
        (LoopDone(p) /\ run[p].processed_any) =>
            \A k \in DOMAIN Rows(p) :
                Rows(p)[k].timestamp > run[p].state => HasAudit(p, Rows(p)[k].id)

\* C4 (as claimed): when main() returns, every entry of the run with an audit
\* row of status ok has a workout header row written in the run from its own
\* parse result.
C4_EveryOkEntryGetsHeader ==
    \A p \in Procs :
        run[p].pc = "done" =>
            \A j \in DOMAIN RunAudit(p) :
                RunAudit(p)[j].status = "ok" =>
                    \E h \in DOMAIN RunHeaders(p) :
                        RunHeaders(p)[h].src = RunAudit(p)[j].entry

ThreeEligible(p) ==
    /\ Len(Rows(p)) = 3
    /\ run[p].state < Rows(p)[1].timestamp
    /\ Rows(p)[1].timestamp < Rows(p)[2].timestamp
    /\ Rows(p)[2].timestamp < Rows(p)[3].timestamp

\* append_parsed raised while the second entry was handled: its error row
\* carries the HTTP error, or the exception left main() at that entry
SecondFailedInPersistence(p) ==
    \/ \E j \in DOMAIN RunAudit(p) :
          /\ RunAudit(p)[j].entry = Rows(p)[2].id
          /\ RunAudit(p)[j].parsed_json = "HTTPError"
    \/ (run[p].pc = "raised" /\ run[p].exc = "HTTPError" /\ run[p].i = 2)

\* C5 (as claimed): a run with three eligible entries in which the second
\* fails during persistence (and whose checkpoint save does not fail) ends
\* with audit rows for the first and the third entry, an audit row of status
\* error for the second, and the checkpoint at the third entry's timestamp.
C5_PartialFailureIsolation ==
    \A p \in Procs :
        (/\ run[p].pc \in {"done", "raised"}
         /\ run[p].exc # "OSError"
         /\ ThreeEligible(p)
         /\ SecondFailedInPersistence(p)) =>
            /\ HasAudit(p, Rows(p)[1].id)
            /\ HasAudit(p, Rows(p)[3].id)
            /\ \E j \in DOMAIN RunAudit(p) :
                  /\ RunAudit(p)[j].entry = Rows(p)[2].id
                  /\ RunAudit(p)[j].status = "error"
            /\ checkpoint = Rows(p)[3].timestamp

\* C6: within one run, every entry past which last_ts was advanced has exactly
\* one audit row of that run, and the run wrote no other audit row.
C6_OneAuditRowPerHandled ==
    \A p \in Procs :
        Active(p) =>
            /\ \A k \in DOMAIN run[p].handled :
                  Cardinality({j \in DOMAIN RunAudit(p) :
                                  RunAudit(p)[j].entry = run[p].handled[k].id}) = 1
            /\ Len(RunAudit(p)) = Len(run[p].handled)

\* a run that handled two entries, one with an error row and one without
C6_Witness ==
    \E p \in Procs :
        /\ Len(run[p].handled) >= 2
        /\ \E j, k \in DOMAIN RunAudit(p) :
              RunAudit(p)[j].status = "error" /\ RunAudit(p)[k].status # "error"

\* C7 (as claimed): an entry with an audit row from an earlier run gets an
\* audit row in the current run only if some save_state has failed.
C7_NoEntryTwice ==
    \A p \in Procs :
        Active(p) =>
            \A j \in DOMAIN RunAudit(p) :
                (\E m \in 1..run[p].audit0 : audit[m].entry = RunAudit(p)[j].entry)
                    => saveFailed

Last(seq) == seq[Len(seq)]

\* parsed_json holds the parse result of the entry handled last
ParsedLastHandled(p) ==
    /\ Active(p)
    /\ run[p].handled # <<>>
    /\ run[p].parsed_json.kind = "obj"
    /\ run[p].parsed_json.src = Last(run[p].handled).id

\* C8 (as claimed): for the entry whose parse returned needs_review, an audit
\* row with status needs_review is written, no workout header row and no
\* activity row is written from it, and when the run has ended the persisted
\* checkpoint has advanced to its timestamp.
C8_NeedsReviewRowAlways ==
    \A p \in Procs :
        (/\ Active(p)
         /\ run[p].parsed_json.kind = "obj"
         /\ StatusOf(run[p].parsed_json) = "needs_review") =>
            LET e == run[p].parsed_json.src
            IN  /\ \E j \in DOMAIN RunAudit(p) :
                      /\ RunAudit(p)[j].entry = e
                      /\ RunAudit(p)[j].status = "needs_review"
                /\ \A h \in DOMAIN RunHeaders(p) : RunHeaders(p)[h].src # e
                /\ \A a \in DOMAIN RunActivities(p) : RunActivities(p)[a].src # e
                /\ run[p].pc \in {"done", "raised"} =>
                      \E k \in DOMAIN Rows(p) :
                          /\ Rows(p)[k].id = e
                          /\ checkpoint >= Rows(p)[k].timestamp

\* no fetched row has a timestamp above the loaded checkpoint (in particular
\* when the fetch returned nothing)
NoneEligible(p) ==
    \A k \in DOMAIN Rows(p) : Rows(p)[k].timestamp <= run[p].state

\* C9: a run that loaded its checkpoint and whose fetch result is empty or
\* holds no eligible entry appends nothing to the three sheets, never saves the
\* checkpoint and leaves the persisted checkpoint as loaded.
C9_NoOpRun ==
    \A p \in Procs :
        (Active(p) /\ NoneEligible(p) /\ run[p].exc # "load") =>
            /\ Len(audit) = run[p].audit0
            /\ Len(headers) = run[p].headers0
            /\ Len(activities) = run[p].activities0
            /\ run[p].saves = 0
            /\ run[p].handled = <<>>
            /\ checkpoint = run[p].state

\* a run that fetched rows, none of them eligible, and has left its loop and
\* its post-loop step
C9_Witness ==
    \E p \in Procs :
        /\ run[p].pc \in {"done", "raised"}
        /\ run[p].exc \notin {"fetch", "load"}
        /\ Rows(p) # <<>>
        /\ run[p].state > 0
        /\ NoneEligible(p)

\* the id expected for the k-th workout of date d (k < 1000): the eight digits
\* of the date, a dash, k in three digits
ExpectedId(d, k) ==
    <<d[1], d[2], d[3], d[4], d[6], d[7], d[9], d[10], "-",
      Digit(k \div 100), Digit((k \div 10) % 10), Digit(k % 10)>>

\* C10: after any number of sequential allocations, each followed by the
\* recording of the workout, the k-th workout of every date carries the id
\* made of the date without separators, a dash and k in three digits, and no
\* two workouts share an id.
C10_SequentialIds ==
    /\ \A j \in DOMAIN headers :
          headers[j].workout_id =
              ExpectedId(headers[j].date,
                         Cardinality({m \in 1..j : headers[m].date = headers[j].date}))
    /\ \A a, b \in DOMAIN headers :
          a # b => headers[a].workout_id # headers[b].workout_id

\* ten workouts allocated for one date (serial 010) and one for another
C10_Witness ==
    /\ Cardinality({j \in DOMAIN headers : headers[j].date = D1}) >= 10
    /\ \E j \in DOMAIN headers : headers[j].date = D2

\* C11 (as claimed): an entry whose parse result is accepted with an audit row
\* of status ok has a workout object whose date is a YYYY-MM-DD date.
C11_OkRowsConformToSchema ==
    \A p \in Procs :
        (ParsedLastHandled(p) /\ Last(RunAudit(p)).status = "ok") =>
            run[p].parsed_json.date \in Dates

\* C12 (as claimed): a run that fetched and found no eligible entry does not
\* end with an exception.
C12_EmptyRunReturns ==
    \A p \in Procs :
        (Active(p) /\ NoneEligible(p) /\ run[p].exc \notin {"fetch", "load"}) =>
            run[p].pc # "raised"

\* C13 (as claimed): no failure of the parse, of the count query or of the
\* header, activity or audit writes leaves main(): a run never ends with the
\* HTTP error of one of these calls.
C13_PerEntryFailuresCaught ==
    \A p \in Procs :
        run[p].pc = "raised" => run[p].exc # "HTTPError"

\* C14 (as claimed): once a run has saved the checkpoint it writes no workout
\* header row and no activity row.
C14_NoWorkoutWriteAfterSave ==
    [][\A p \in Procs :
          run[p].saves > 0 => (headers' = headers /\ activities' = activities)]_vars

\* C20 (as claimed): every workout header row and activity row written in a
\* run comes from an entry whose audit row in that run has status ok.
C20_WorkoutRowsOnlyFromOkEntries ==
    \A p \in Procs :
        Active(p) =>
            /\ \A h \in DOMAIN RunHeaders(p) :
                  \E j \in DOMAIN RunAudit(p) :
                      /\ RunAudit(p)[j].entry = RunHeaders(p)[h].src
                      /\ RunAudit(p)[j].status = "ok"
            /\ \A a \in DOMAIN RunActivities(p) :
                  \E j \in DOMAIN RunAudit(p) :
                      /\ RunAudit(p)[j].entry = RunActivities(p)[a].src
                      /\ RunAudit(p)[j].status = "ok"

\* the entries of a fetch that the loaded checkpoint leaves eligible
EligibleIds(rows, state) ==
    {rows[k].id : k \in {j \in DOMAIN rows : rows[j].timestamp > state}}

\* C17 (as claimed): after a run ended by a failed checkpoint save, its audit
\* rows are in the store and the persisted checkpoint is the one the run
\* loaded, so that the next run can load it and finds the same entries
\* eligible.
C17_FailedSaveKeepsCheckpoint ==
    \A p \in Procs :
        (run[p].pc = "raised" /\ run[p].exc = "OSError") =>
            /\ Len(RunAudit(p)) = Len(run[p].handled)
            /\ checkpoint = run[p].state
            /\ EligibleIds(Rows(p), checkpoint) = EligibleIds(Rows(p), run[p].state)

\* C19 (as claimed): outside a save_state call the persisted checkpoint is
\* not below the one the run loaded, and once a run has saved it is the
\* greatest timestamp among the entries the run handled.
C19_CheckpointMonotone ==
    \A p \in Procs :
        (Active(p) /\ run[p].pc # "save" /\ run[p].exc # "load") =>
            /\ checkpoint >= run[p].state
            /\ run[p].saves > 0 =>
                  /\ run[p].handled # <<>>
                  /\ \A k \in DOMAIN run[p].handled :
                        checkpoint >= run[p].handled[k].timestamp
                  /\ \E k \in DOMAIN run[p].handled :
                        checkpoint = run[p].handled[k].timestamp

\* the parse result held by the run is a JSON object without a status key
AbsentStatus(p) ==
    run[p].parsed_json.kind = "obj" /\ run[p].parsed_json.status = "absent"

\* C18 (as claimed): for model output that is JSON without a status field
\* the parser returns needs_review, and every handled entry with such output
\* has an audit row with status needs_review.
C18_AbsentStatusRowAlways ==
    /\ \A text \in ModelOutputs :
          (text.kind # "invalid" /\ text.status = "absent") =>
              /\ ~parse_with_llm(text, 1).raised
              /\ parse_with_llm(text, 1).status = "needs_review"
    /\ \A p \in Procs :
          (ParsedLastHandled(p) /\ AbsentStatus(p)) =>
              Last(RunAudit(p)).status = "needs_review"

\* C15: a workout header row written by a run shares its workout id with
\* another header row only if that row was written by the other process while
\* the run was going on (the two runs overlapped); with overlapping runs two
\* header rows sharing one id are reachable (C15_Witness).
C15_DuplicateIdOnlyByOverlap ==
    \A p \in Procs2 :
        Active(p) =>
            \A h, g \in DOMAIN headers :
                (/\ h > run[p].headers0
                 /\ headers[h].by = p
                 /\ g # h
                 /\ headers[g].workout_id = headers[h].workout_id) =>
                    /\ g > run[p].headers0
                    /\ headers[g].by # p

\* both runs took the same count for the same date before either appended its
\* header, and both have returned: two header rows share a workout id
C15_Witness ==
    /\ \A p \in Procs2 : run[p].pc = "done" /\ run[p].headers0 = 0
    /\ Len(headers) = 2
    /\ headers[1].workout_id = headers[2].workout_id
    /\ headers[1].date = headers[2].date
    /\ headers[1].by # headers[2].by

\* C16 (as claimed): a save_state call that returns leaves the persisted
\* checkpoint at the saving run's last_ts, whatever the file held before and
\* whatever the other run is doing (the last save wins).
C16_LastSaveWins ==
    [][\A p \in Procs2 :
          run'[p].saves > run[p].saves => checkpoint' = run[p].last_ts]_vars

====
